---- MODULE Spec2Model ----
(***************************************************************************)
(* Model of the Ord GPT context broker (src/Ord/agent_memory.py) over the  *)
(* agentmemory store it delegates to.                                      *)
(*                                                                         *)
(* The store is one variable: a record with one sequence of memory records *)
(* per category, the event log and the epoch counter.  Each function of    *)
(* agent_memory.py is an operator of the same name that takes the state of *)
(* a call (the store, whether a store call has raised, and how many store  *)
(* calls are left before the injected failure) and returns the state after *)
(* it.  datetime.now() timestamps are never read back by the broker and    *)
(* are left out of the metadata; the record id, which the store assigns in *)
(* insertion order, carries the recency order.                             *)
(***************************************************************************)
EXTENDS Integers, Sequences, FiniteSets, TLC

VARIABLES
    store,      \* the agentmemory store: categories, events, epoch
    ret,        \* the last finished broker call: its arguments and result
    lastPref,   \* history: value passed by the last record_user_preference per (user, type)
    boot,       \* step-wise initialize_memory of a starting process (crash model)
    thread      \* frames of concurrently running record_user_preference calls

vars == <<store, ret, lastPref, boot, thread>>

(***************************** bounds and inputs ***************************)
MaxConv == 3        \* conversation records the model lets the store hold
MaxTurns == 3       \* conversation records in the model of failing record_response calls
MaxLong == 6        \* conversation records in the model of one long conversation
MaxLimit == 2       \* largest limit passed to get_conversation_history directly
MaxCalls == 2       \* record_user_preference calls each concurrent thread starts
MaxRestarts == 2    \* process starts after the first one (crash model)

Users == {"u1", "u2"}
Messages == {"m1", "m2"}
PrefTypes == {"topic", "network"}
PrefValues == {"A", "B"}
NewItems ==
    {[new_facts |-> <<>>, new_knowledge |-> <<>>],
     [new_facts |-> <<"f1">>, new_knowledge |-> <<>>],
     [new_facts |-> <<"f1x", "f2">>, new_knowledge |-> <<"k1">>],
     [new_facts |-> <<>>, new_knowledge |-> <<"k1", "k2">>]}
Threads == {1, 2}

\* the fields of the store are named by the category constants of lines 26-29
bitcoin_facts == <<"bf1", "bf2", "bf3", "bf4", "bf5">>
ordinals_knowledge == <<"ok1", "ok2", "ok3", "ok4", "ok5">>

PreviewLen == 50
HistoryLimit == 5
SearchLimit == 3
PreferencesCap == 100
SearchDefault == 5
EpochInitial == 0

(******************************* the store *********************************)
Min(a, b) == IF a < b THEN a ELSE b

Reverse(s) == [i \in 1..Len(s) |-> s[Len(s) + 1 - i]]

Take(s, n) == SubSeq(s, 1, Min(n, Len(s)))

NoFilter == <<>>

\* metadata written by update: given keys replace, the other keys stay
Merge(old, new) ==
    [k \in (DOMAIN old) \cup (DOMAIN new) |-> IF k \in DOMAIN new THEN new[k] ELSE old[k]]

\* the store's notion of "near duplicate" (similarity >= threshold)
Similar(a, b) == a = b \/ {a, b} = {"f1", "f1x"}

Matches(r, filter) ==
    \A k \in DOMAIN filter : k \in DOMAIN r.metadata /\ r.metadata[k] = filter[k]

Filtered(cat, filter) ==
    LET Keep(r) == Matches(r, filter) IN SelectSeq(cat, Keep)

\* create_memory: append a record whose id is the count of the collection
create_memory(cat, text, metadata) ==
    Append(cat, [id |-> Len(cat), document |-> text, metadata |-> metadata])

\* create_unique_memory: insert unless a near duplicate is in the category
create_unique_memory(cat, text, metadata) ==
    IF \E i \in 1..Len(cat) : Similar(cat[i].document, text)
    THEN cat
    ELSE create_memory(cat, text, metadata)

\* get_memories: metadata filter, ordered by recency, capped
get_memories(cat, filter, n_results, sort_order) ==
    LET f == Filtered(cat, filter)
    IN Take(IF sort_order = "desc" THEN Reverse(f) ELSE f, n_results)

\* search_memory: similarity search, nearest first, capped; no distance
\* threshold, so records with other texts are ranked after the near ones
search_memory(cat, text, filter, n_results) ==
    LET f == Filtered(cat, filter)
        Exact(r) == r.document = text
        Near(r) == r.document # text /\ Similar(r.document, text)
        Far(r) == ~Similar(r.document, text)
    IN Take(SelectSeq(f, Exact) \o SelectSeq(f, Near) \o SelectSeq(f, Far), n_results)

\* update_memory: merge the given metadata into the record with that id
update_memory(cat, id, metadata) ==
    [i \in 1..Len(cat) |->
        IF cat[i].id = id THEN [cat[i] EXCEPT !.metadata = Merge(@, metadata)] ELSE cat[i]]

count_memories(cat) == Len(cat)

\* create_event: the store stamps the current epoch on the event
create_event(st, text, metadata) ==
    [st EXCEPT !.events = create_memory(@, text, Merge(metadata, [epoch |-> st.epoch]))]

reset_epoch(st) == [st EXCEPT !.epoch = EpochInitial]
increment_epoch(st) == [st EXCEPT !.epoch = @ + 1]
get_epoch(st) == st.epoch

EmptyStore ==
    [epoch |-> EpochInitial,
     ord_conversations |-> <<>>,
     bitcoin_facts |-> <<>>,
     ordinals_knowledge |-> <<>>,
     user_preferences |-> <<>>,
     events |-> <<>>]

(************************* state of a broker call **************************)
\* budget = 0: no store call fails; budget = k > 0: the k-th store call raises
Enter(st, budget) == [st |-> st, budget |-> budget, raised |-> FALSE]

\* one store call that writes: it raises, or it leaves the store as `after`
StoreCall(c, after) ==
    IF c.raised THEN c
    ELSE IF c.budget = 1 THEN [c EXCEPT !.raised = TRUE]
    ELSE [st |-> after, budget |-> IF c.budget = 0 THEN 0 ELSE c.budget - 1, raised |-> FALSE]

\* message[:50] + "...": texts are atoms here, so the preview is kept symbolic
Preview(message) == [first |-> PreviewLen, of |-> message, then |-> "..."]

(***************************** agent_memory.py *****************************)
RECURSIVE SeedFacts(_, _)
SeedFacts(c, items) ==
    IF items = <<>> THEN c
    ELSE SeedFacts(
            StoreCall(c, [c.st EXCEPT !.bitcoin_facts =
                create_memory(@, Head(items), [source |-> "initial_seeding"])]),
            Tail(items))

RECURSIVE SeedKnowledge(_, _)
SeedKnowledge(c, items) ==
    IF items = <<>> THEN c
    ELSE SeedKnowledge(
            StoreCall(c, [c.st EXCEPT !.ordinals_knowledge =
                create_memory(@, Head(items), [source |-> "initial_seeding"])]),
            Tail(items))

seed_initial_knowledge(c) == SeedKnowledge(SeedFacts(c, bitcoin_facts), ordinals_knowledge)

\* mutant: the guard tests the conversation count instead of the knowledge count
ShouldSeed_Conversations(st) == count_memories(st.ord_conversations) = 0

\* the seeding guard of initialize_memory
ShouldSeed(st) == count_memories(st.ordinals_knowledge) = 0

initialize_memory(c) ==
    LET c1 == StoreCall(c, reset_epoch(c.st))
    IN IF ~c1.raised /\ ShouldSeed(c1.st) THEN seed_initial_knowledge(c1) ELSE c1

record_user_message(c, user_id, message) ==
    LET c1 == StoreCall(c, [c.st EXCEPT !.ord_conversations =
                create_memory(@, message,
                    [user_id |-> user_id, speaker |-> "user", epoch |-> get_epoch(c.st)])])
    IN StoreCall(c1, create_event(c1.st, <<"User", user_id, "said", message>>,
                    [user_id |-> user_id, message_type |-> "user_message"]))

record_agent_response(c, user_id, message) ==
    LET c1 == StoreCall(c, [c.st EXCEPT !.ord_conversations =
                create_memory(@, message,
                    [user_id |-> user_id, speaker |-> "ord_gpt", epoch |-> get_epoch(c.st)])])
    IN StoreCall(c1, create_event(c1.st, <<"Ord GPT responded to", user_id, Preview(message)>>,
                    [user_id |-> user_id, message_type |-> "agent_response"]))

record_bitcoin_fact(c, fact, source) ==
    StoreCall(c, [c.st EXCEPT !.bitcoin_facts =
        create_unique_memory(@, fact, [source |-> source, epoch |-> get_epoch(c.st)])])

record_ordinals_knowledge(c, knowledge, source) ==
    StoreCall(c, [c.st EXCEPT !.ordinals_knowledge =
        create_unique_memory(@, knowledge, [source |-> source, epoch |-> get_epoch(c.st)])])

\* the search of record_user_preference
existing_prefs(st, user_id, preference_type) ==
    search_memory(st.user_preferences, preference_type, [user_id |-> user_id], SearchDefault)

\* mutant: the write repeats the search, so check and act are one step
UpsertPreference_Recheck(c, found, user_id, preference_type, preference_value) ==
    LET again == existing_prefs(c.st, user_id, preference_type)
    IN IF again # <<>>
       THEN StoreCall(c, [c.st EXCEPT !.user_preferences =
                update_memory(@, again[1].id, [value |-> preference_value])])
       ELSE StoreCall(c, [c.st EXCEPT !.user_preferences =
                create_memory(@, preference_type,
                    [user_id |-> user_id, value |-> preference_value])])

\* the create-or-update of record_user_preference, on the result of its search
UpsertPreference(c, found, user_id, preference_type, preference_value) ==
    IF found # <<>>
    THEN StoreCall(c, [c.st EXCEPT !.user_preferences =
            update_memory(@, found[1].id, [value |-> preference_value])])
    ELSE StoreCall(c, [c.st EXCEPT !.user_preferences =
            create_memory(@, preference_type,
                [user_id |-> user_id, value |-> preference_value])])

record_user_preference(c, user_id, preference_type, preference_value) ==
    UpsertPreference(c, existing_prefs(c.st, user_id, preference_type),
                     user_id, preference_type, preference_value)

\* mutant: the fetched records are not reversed
get_conversation_history_NoReverse(st, user_id, limit) ==
    LET memories == get_memories(st.ord_conversations, [user_id |-> user_id], limit, "desc")
    IN [i \in 1..Len(memories) |->
            [speaker |-> IF "speaker" \in DOMAIN memories[i].metadata
                         THEN memories[i].metadata.speaker ELSE "unknown",
             text |-> memories[i].document]]

get_conversation_history(st, user_id, limit) ==
    LET memories == get_memories(st.ord_conversations, [user_id |-> user_id], limit, "desc")
        chrono == Reverse(memories)
    IN [i \in 1..Len(chrono) |->
            [speaker |-> IF "speaker" \in DOMAIN chrono[i].metadata
                         THEN chrono[i].metadata.speaker ELSE "unknown",
             text |-> chrono[i].document]]

search_bitcoin_facts(st, query, limit) ==
    search_memory(st.bitcoin_facts, query, NoFilter, limit)

search_ordinals_knowledge(st, query, limit) ==
    search_memory(st.ordinals_knowledge, query, NoFilter, limit)

RECURSIVE FoldPreferences(_, _)
FoldPreferences(memories, preferences) ==
    IF memories = <<>> THEN preferences
    ELSE LET memory == Head(memories)
             pref_value == IF "value" \in DOMAIN memory.metadata
                           THEN memory.metadata.value ELSE "None"
         IN FoldPreferences(Tail(memories),
                            Merge(preferences, memory.document :> pref_value))

get_user_preferences(st, user_id) ==
    FoldPreferences(
        get_memories(st.user_preferences, [user_id |-> user_id], PreferencesCap, "desc"),
        <<>>)

Documents(memories) == [i \in 1..Len(memories) |-> memories[i].document]

\* the bundle generate_context compiles from the store
Context(st, user_id, current_message, conversation_history) ==
    [conversation_history |-> conversation_history,
     relevant_bitcoin_facts |->
         Documents(search_bitcoin_facts(st, current_message, SearchLimit)),
     relevant_ordinals_knowledge |->
         Documents(search_ordinals_knowledge(st, current_message, SearchLimit)),
     user_preferences |-> get_user_preferences(st, user_id),
     current_epoch |-> get_epoch(st)]

\* mutant: the epoch is not incremented
generate_context_NoIncrement(c, user_id, current_message) ==
    LET c2 == record_user_message(c, user_id, current_message)
    IN [c |-> c2,
        context |-> Context(c2.st, user_id, current_message,
                        get_conversation_history(c2.st, user_id, HistoryLimit))]

\* mutant: the message is recorded before the epoch is incremented
generate_context_RecordFirst(c, user_id, current_message) ==
    LET c1 == record_user_message(c, user_id, current_message)
        c2 == StoreCall(c1, increment_epoch(c1.st))
    IN [c |-> c2,
        context |-> Context(c2.st, user_id, current_message,
                        get_conversation_history(c2.st, user_id, HistoryLimit))]

\* mutant: the history is queried before the message is recorded
generate_context_HistoryFirst(c, user_id, current_message) ==
    LET c1 == StoreCall(c, increment_epoch(c.st))
        c2 == record_user_message(c1, user_id, current_message)
    IN [c |-> c2,
        context |-> Context(c2.st, user_id, current_message,
                        get_conversation_history(c1.st, user_id, HistoryLimit))]

\* generate_context: the call state after it and the bundle it returns
generate_context(c, user_id, current_message) ==
    LET c1 == StoreCall(c, increment_epoch(c.st))
        c2 == record_user_message(c1, user_id, current_message)
    IN [c |-> c2,
        context |-> Context(c2.st, user_id, current_message,
                        get_conversation_history(c2.st, user_id, HistoryLimit))]

process_message(c, user_id, message) == generate_context(c, user_id, message)

RECURSIVE ForEachFact(_, _)
ForEachFact(c, new_facts) ==
    IF new_facts = <<>> THEN c
    ELSE ForEachFact(record_bitcoin_fact(c, Head(new_facts), "conversation"), Tail(new_facts))

RECURSIVE ForEachKnowledge(_, _)
ForEachKnowledge(c, new_knowledge) ==
    IF new_knowledge = <<>> THEN c
    ELSE ForEachKnowledge(record_ordinals_knowledge(c, Head(new_knowledge), "conversation"),
                          Tail(new_knowledge))

\* mutant: the new items are persisted before the response is recorded
record_response_ItemsFirst(c, user_id, response, new_facts, new_knowledge) ==
    LET c1 == IF new_facts # <<>> THEN ForEachFact(c, new_facts) ELSE c
        c2 == IF new_knowledge # <<>> THEN ForEachKnowledge(c1, new_knowledge) ELSE c1
    IN record_agent_response(c2, user_id, response)

record_response(c, user_id, response, new_facts, new_knowledge) ==
    LET c1 == record_agent_response(c, user_id, response)
        c2 == IF new_facts # <<>> THEN ForEachFact(c1, new_facts) ELSE c1
    IN IF new_knowledge # <<>> THEN ForEachKnowledge(c2, new_knowledge) ELSE c2

(**************** sequential use: one call runs to completion **************)
NoPrefs == [p \in Users \X PrefTypes |-> "none"]
BootIdle ==
    [pc |-> "up", i |-> 0, starts |-> 1, wrote |-> 0, facts_before |-> 0,
     knowledge_before |-> 0, prev |-> "none", prev_wrote |-> 0]
ThreadsIdle == [t \in Threads |-> [pc |-> "idle", calls |-> 0]]

Init ==
    /\ store = initialize_memory(Enter(EmptyStore, 0)).st
    /\ ret = [op |-> "initialize_memory", raised |-> FALSE]
    /\ lastPref = NoPrefs
    /\ boot = BootIdle
    /\ thread = ThreadsIdle

InitializeMemory ==
    /\ store' = initialize_memory(Enter(store, 0)).st
    /\ ret' = [op |-> "initialize_memory", raised |-> FALSE]
    /\ UNCHANGED <<lastPref, boot, thread>>

ProcessMessage(u, m) ==
    /\ LET r == process_message(Enter(store, 0), u, m)
       IN /\ store' = r.c.st
          /\ ret' = [op |-> "process_message", user_id |-> u, message |-> m,
                     raised |-> FALSE, value |-> r.context]
    /\ UNCHANGED <<lastPref, boot, thread>>

RecordResponse(u, m, nf, nk, failAt) ==
    /\ LET c == record_response(Enter(store, failAt), u, m, nf, nk)
       IN /\ store' = c.st
          /\ ret' = [op |-> "record_response", user_id |-> u, response |-> m,
                     new_facts |-> nf, new_knowledge |-> nk, fail_at |-> failAt,
                     raised |-> c.raised]
    /\ UNCHANGED <<lastPref, boot, thread>>

RecordUserPreference(u, t, v) ==
    /\ store' = record_user_preference(Enter(store, 0), u, t, v).st
    /\ ret' = [op |-> "record_user_preference", user_id |-> u, preference_type |-> t,
               preference_value |-> v, raised |-> FALSE]
    /\ lastPref' = [lastPref EXCEPT ![<<u, t>>] = v]
    /\ UNCHANGED <<boot, thread>>

GetConversationHistory(u, limit) ==
    /\ ret' = [op |-> "get_conversation_history", user_id |-> u, limit |-> limit,
               raised |-> FALSE, value |-> get_conversation_history(store, u, limit)]
    /\ UNCHANGED <<store, lastPref, boot, thread>>

GetUserPreferences(u) ==
    /\ ret' = [op |-> "get_user_preferences", user_id |-> u, raised |-> FALSE,
               value |-> get_user_preferences(store, u)]
    /\ UNCHANGED <<store, lastPref, boot, thread>>

Next ==
    \/ InitializeMemory
    \/ /\ Len(store.ord_conversations) < MaxConv
       /\ \/ \E u \in Users, m \in Messages : ProcessMessage(u, m)
          \/ \E u \in Users, m \in Messages : RecordResponse(u, m, <<>>, <<>>, 0)
    \/ \E u \in Users, limit \in 0..MaxLimit : GetConversationHistory(u, limit)

Spec == Init /\ [][Next]_vars

(********************* one long conversation of one user *******************)
NextLong ==
    \/ /\ Len(store.ord_conversations) < MaxLong
       /\ \/ \E m \in Messages : ProcessMessage("u1", m)
          \/ ProcessMessage("u2", "m1")
          \/ RecordResponse("u1", "m2", <<>>, <<>>, 0)
    \/ GetConversationHistory("u1", HistoryLimit)

SpecLong == Init /\ [][NextLong]_vars

(************ record_response with new items and failing store calls *******)
\* the store before the module is first imported
InitFresh ==
    /\ store = EmptyStore
    /\ ret = [op |-> "none", raised |-> FALSE]
    /\ lastPref = NoPrefs
    /\ boot = BootIdle
    /\ thread = ThreadsIdle

NextResponse ==
    \/ InitializeMemory
    \/ /\ ret.op # "none"
       /\ Len(store.ord_conversations) < MaxTurns
       /\ \/ \E u \in Users : ProcessMessage(u, "m1")
          \/ \E u \in Users, n \in NewItems :
                \E failAt \in 0..(2 + Len(n.new_facts) + Len(n.new_knowledge)) :
                   RecordResponse(u, "m2", n.new_facts, n.new_knowledge, failAt)

SpecResponse == InitFresh /\ [][NextResponse]_vars

(************************** preference management **************************)
NextPrefs ==
    \/ \E u \in Users, t \in PrefTypes, v \in PrefValues : RecordUserPreference(u, t, v)
    \/ \E u \in Users : GetUserPreferences(u)
    \/ \E u \in Users : Len(store.ord_conversations) < MaxTurns /\ ProcessMessage(u, "m1")

SpecPrefs == Init /\ [][NextPrefs]_vars

(******** initialize_memory one store call at a time, with crashes *********)
\* boot.pc: "down" (no process), "seed_facts" / "seed_knowledge" (inside the
\* loops of seed_initial_knowledge, about to write item boot.i), "up"
\* (initialize_memory has returned).  boot.wrote counts the seed records the
\* current run has written; boot.prev tells how the run before it ended.
InitCrash ==
    /\ store = EmptyStore
    /\ ret = [op |-> "none", raised |-> FALSE]
    /\ lastPref = NoPrefs
    /\ boot = [pc |-> "down", i |-> 0, starts |-> 0, wrote |-> 0, facts_before |-> 0,
               knowledge_before |-> 0, prev |-> "none", prev_wrote |-> 0]
    /\ thread = ThreadsIdle

\* a process starts and runs initialize_memory up to the seeding decision
BootStart ==
    /\ boot.pc = "down"
    /\ boot.starts <= MaxRestarts
    /\ LET st == reset_epoch(store)
       IN /\ store' = st
          /\ boot' = [boot EXCEPT
                        !.pc = IF ShouldSeed(st) THEN "seed_facts" ELSE "up",
                        !.i = 1,
                        !.starts = @ + 1,
                        !.wrote = 0,
                        !.facts_before = count_memories(st.bitcoin_facts),
                        !.knowledge_before = count_memories(st.ordinals_knowledge)]
    /\ UNCHANGED <<ret, lastPref, thread>>

\* one iteration of "for fact in bitcoin_facts"
BootSeedFact ==
    /\ boot.pc = "seed_facts"
    /\ store' = SeedFacts(Enter(store, 0), <<bitcoin_facts[boot.i]>>).st
    /\ boot' = IF boot.i = Len(bitcoin_facts)
               THEN [boot EXCEPT !.pc = "seed_knowledge", !.i = 1, !.wrote = @ + 1]
               ELSE [boot EXCEPT !.i = @ + 1, !.wrote = @ + 1]
    /\ UNCHANGED <<ret, lastPref, thread>>

\* one iteration of "for knowledge in ordinals_knowledge"
BootSeedKnowledge ==
    /\ boot.pc = "seed_knowledge"
    /\ store' = SeedKnowledge(Enter(store, 0), <<ordinals_knowledge[boot.i]>>).st
    /\ boot' = IF boot.i = Len(ordinals_knowledge)
               THEN [boot EXCEPT !.pc = "up", !.i = 1, !.wrote = @ + 1]
               ELSE [boot EXCEPT !.i = @ + 1, !.wrote = @ + 1]
    /\ UNCHANGED <<ret, lastPref, thread>>

\* the process dies inside seed_initial_knowledge; the store keeps what was written
Crash ==
    /\ boot.pc \in {"seed_facts", "seed_knowledge"}
    /\ boot' = [boot EXCEPT !.pc = "down", !.prev = "crashed", !.prev_wrote = boot.wrote]
    /\ UNCHANGED <<store, ret, lastPref, thread>>

\* the process ends after initialize_memory has returned
Exit ==
    /\ boot.pc = "up"
    /\ boot' = [boot EXCEPT !.pc = "down", !.prev = "completed", !.prev_wrote = boot.wrote]
    /\ UNCHANGED <<store, ret, lastPref, thread>>

NextCrash == BootStart \/ BootSeedFact \/ BootSeedKnowledge \/ Crash \/ Exit

SpecCrash == InitCrash /\ [][NextCrash]_vars

(************* record_user_preference calls that run concurrently **********)
\* a thread runs the search (line 143), and in a later step the update or
\* create (lines 146-157) on the result its search returned
PrefSearch(t, u, ty, v) ==
    /\ thread[t].pc # "searched"
    /\ thread[t].calls < MaxCalls
    /\ thread' = [thread EXCEPT ![t] =
            [pc |-> "searched", calls |-> thread[t].calls + 1, user_id |-> u, preference_type |-> ty,
             preference_value |-> v, existing_prefs |-> existing_prefs(store, u, ty)]]
    /\ UNCHANGED <<store, ret, lastPref, boot>>

PrefWrite(t) ==
    /\ thread[t].pc = "searched"
    /\ store' = UpsertPreference(Enter(store, 0), thread[t].existing_prefs,
                    thread[t].user_id, thread[t].preference_type,
                    thread[t].preference_value).st
    /\ thread' = [thread EXCEPT ![t].pc = "done"]
    /\ UNCHANGED <<ret, lastPref, boot>>

\* the value a thread passes tells its writes from the other thread's
ValueOf(t) == IF t = 1 THEN "A" ELSE "B"

NextConc ==
    \/ \E t \in Threads, u \in Users, ty \in PrefTypes : PrefSearch(t, u, ty, ValueOf(t))
    \/ \E t \in Threads : PrefWrite(t)

SpecConc == Init /\ [][NextConc]_vars

(********************************* claims **********************************)
Conv == store.ord_conversations
Prefs == store.user_preferences

\* indices of the records appended to a category by a step
Added(old, new) == (Len(old) + 1)..Len(new)

HasEpoch(r, e) == "epoch" \in DOMAIN r.metadata /\ r.metadata.epoch = e

PrefIdx(st, u, t) ==
    {i \in 1..Len(st.user_preferences) :
        /\ st.user_preferences[i].document = t
        /\ st.user_preferences[i].metadata.user_id = u}

\* C2 (as claimed): after sequential record_user_preference calls there is at
\* most one preference record per (user, type), a pair that was recorded has
\* its record, and the record's value is the value of the last call for that pair.
C2_Claim ==
    \A u \in Users, t \in PrefTypes :
        /\ Cardinality(PrefIdx(store, u, t)) <= 1
        /\ lastPref[<<u, t>>] # "none" => PrefIdx(store, u, t) # {}
        /\ \A i \in PrefIdx(store, u, t) : Prefs[i].metadata.value = lastPref[<<u, t>>]

UserIdx(u) == {i \in 1..Len(Conv) : Conv[i].metadata.user_id = u}

\* the index of the record that is j-th of the n most recent ones of user u
NthRecent(u, n, j) ==
    CHOOSE i \in UserIdx(u) : Cardinality({k \in UserIdx(u) : k > i}) = n - j

\* C3: get_conversation_history(U, L) returns at most L entries, all of them
\* conversation records of U, the L most recent ones, oldest first.
C3_History ==
    ret.op = "get_conversation_history" =>
        LET h == ret.value
            n == Min(ret.limit, Cardinality(UserIdx(ret.user_id)))
        IN /\ Len(h) <= ret.limit
           /\ Len(h) = n
           /\ \A j \in 1..n :
                LET r == Conv[NthRecent(ret.user_id, n, j)]
                IN h[j] = [speaker |-> r.metadata.speaker, text |-> r.document]

C3_Witness ==
    /\ ret.op = "get_conversation_history"
    /\ ret.limit = 2
    /\ Cardinality(UserIdx(ret.user_id)) = 3
    /\ Len(ret.value) = 2
    /\ ret.value[1] # ret.value[2]

Seeding == boot.pc \in {"seed_facts", "seed_knowledge"}

\* C4: initialization seeds only when the knowledge category is empty at that
\* moment, and an initialization that follows a completed one writes no seed
\* record: the fact and knowledge counts stay what they were when it started.
C4_SeedOnce ==
    /\ (Seeding \/ boot.wrote > 0) => boot.knowledge_before = 0
    /\ (boot.prev = "completed" /\ boot.pc # "down") =>
          /\ ~Seeding
          /\ boot.wrote = 0
          /\ count_memories(store.bitcoin_facts) = boot.facts_before
          /\ count_memories(store.ordinals_knowledge) = boot.knowledge_before

C4_Witness ==
    /\ boot.prev = "completed"
    /\ boot.pc = "up"
    /\ boot.starts >= 2
    /\ count_memories(store.ordinals_knowledge) = Len(ordinals_knowledge)

\* C5 (as claimed): every memory record and every event the broker writes
\* (conversation, fact, knowledge, seeded and preference records, events)
\* carries in its metadata the value of the epoch counter it was written at.
C5_Claim ==
    [][/\ \A i \in Added(store.ord_conversations, store'.ord_conversations) :
            HasEpoch(store'.ord_conversations[i], store'.epoch)
       /\ \A i \in Added(store.events, store'.events) :
            HasEpoch(store'.events[i], store'.epoch)
       /\ \A i \in Added(store.bitcoin_facts, store'.bitcoin_facts) :
            HasEpoch(store'.bitcoin_facts[i], store'.epoch)
       /\ \A i \in Added(store.ordinals_knowledge, store'.ordinals_knowledge) :
            HasEpoch(store'.ordinals_knowledge[i], store'.epoch)
       /\ \A i \in Added(store.user_preferences, store'.user_preferences) :
            HasEpoch(store'.user_preferences[i], store'.epoch)]_vars

Seeded(r) == "source" \in DOMAIN r.metadata /\ r.metadata.source = "initial_seeding"

Learned(r) == ~Seeded(r)

\* C5 (amended): every conversation record, every fact or knowledge record
\* learned during conversation and every event carries the value the epoch
\* counter has when the call that writes it returns; seeded records carry none.
C5_Stamped ==
    [][/\ \A i \in Added(store.ord_conversations, store'.ord_conversations) :
            HasEpoch(store'.ord_conversations[i], store'.epoch)
       /\ \A i \in Added(store.events, store'.events) :
            HasEpoch(store'.events[i], store'.epoch)
       /\ \A i \in Added(store.bitcoin_facts, store'.bitcoin_facts) :
            IF Learned(store'.bitcoin_facts[i])
            THEN HasEpoch(store'.bitcoin_facts[i], store'.epoch)
            ELSE "epoch" \notin DOMAIN store'.bitcoin_facts[i].metadata
       /\ \A i \in Added(store.ordinals_knowledge, store'.ordinals_knowledge) :
            IF Learned(store'.ordinals_knowledge[i])
            THEN HasEpoch(store'.ordinals_knowledge[i], store'.epoch)
            ELSE "epoch" \notin DOMAIN store'.ordinals_knowledge[i].metadata]_vars

C5_Witness ==
    /\ \E i \in 1..Len(store.bitcoin_facts) : HasEpoch(store.bitcoin_facts[i], 2)
    /\ \E i \in 1..Len(Conv) : HasEpoch(Conv[i], 1)
    /\ \E i \in 1..Len(store.events) : HasEpoch(store.events[i], 2)
    /\ \E i \in 1..Len(store.bitcoin_facts) : Seeded(store.bitcoin_facts[i])

\* C6 (as claimed): when user U has no preference record of type T,
\* record_user_preference(U, T, V) appends exactly one record (text T, user U,
\* value V), leaves every existing preference record unchanged, and afterwards
\* get_user_preferences(U) maps T to V and every other type to its value before.
C6_Claim ==
    [][(ret'.op = "record_user_preference"
            /\ PrefIdx(store, ret'.user_id, ret'.preference_type) = {}) =>
          LET u == ret'.user_id
              t == ret'.preference_type
              v == ret'.preference_value
              old == store.user_preferences
              new == store'.user_preferences
              was == get_user_preferences(store, u)
              now == get_user_preferences(store', u)
          IN /\ Len(new) = Len(old) + 1
             /\ SubSeq(new, 1, Len(old)) = old
             /\ new[Len(new)].document = t
             /\ new[Len(new)].metadata.user_id = u
             /\ new[Len(new)].metadata.value = v
             /\ DOMAIN now = DOMAIN was \cup {t}
             /\ now[t] = v
             /\ \A x \in DOMAIN was : now[x] = was[x]]_vars

NoDuplicate(cat) ==
    \A i, j \in 1..Len(cat) : cat[i].document = cat[j].document => i = j

\* C7 (as claimed): after a crash that interrupted seeding once at least one
\* seed record was written, the next initialization finds the emptiness test
\* false and writes no seed record, and no seeded string is stored twice.
C7_Claim ==
    /\ (boot.prev = "crashed" /\ boot.prev_wrote >= 1 /\ boot.pc # "down") =>
          (~Seeding /\ boot.wrote = 0)
    /\ NoDuplicate(store.bitcoin_facts)
    /\ NoDuplicate(store.ordinals_knowledge)

IsPrefix(old, new) == Len(old) <= Len(new) /\ SubSeq(new, 1, Len(old)) = old

Stored(cat, text) == \E i \in 1..Len(cat) : Similar(cat[i].document, text)

\* C8: record_response writes the response record before any fact or knowledge
\* record; when the store call persisting the k-th new item fails, the call
\* raises, the response record and the items before the k-th are stored, the
\* k-th and later items are not, and nothing already stored is undone.
C8_PartialFailure ==
    [][ret'.op = "record_response" =>
          LET nf == ret'.new_facts
              nk == ret'.new_knowledge
              k == ret'.fail_at - 2
              done == IF ret'.fail_at = 0 THEN Len(nf) + Len(nk) ELSE k - 1
              factsDone == Min(done, Len(nf))
              knowledgeDone == IF done > Len(nf) THEN done - Len(nf) ELSE 0
              newFacts == {store'.bitcoin_facts[i].document :
                              i \in Added(store.bitcoin_facts, store'.bitcoin_facts)}
              newKnowledge == {store'.ordinals_knowledge[i].document :
                              i \in Added(store.ordinals_knowledge, store'.ordinals_knowledge)}
          IN /\ ret'.raised = (ret'.fail_at # 0)
             /\ IsPrefix(store.ord_conversations, store'.ord_conversations)
             /\ IsPrefix(store.bitcoin_facts, store'.bitcoin_facts)
             /\ IsPrefix(store.ordinals_knowledge, store'.ordinals_knowledge)
             /\ IsPrefix(store.events, store'.events)
             /\ ret'.fail_at = 1 =>
                  /\ store'.ord_conversations = store.ord_conversations
                  /\ newFacts = {} /\ newKnowledge = {}
             /\ ret'.fail_at # 1 =>
                  LET last == store'.ord_conversations[Len(store'.ord_conversations)]
                  IN /\ Len(store'.ord_conversations) = Len(store.ord_conversations) + 1
                     /\ last.document = ret'.response
                     /\ last.metadata.speaker = "ord_gpt"
                     /\ last.metadata.user_id = ret'.user_id
             /\ k >= 1 =>
                  /\ \A j \in 1..factsDone : Stored(store'.bitcoin_facts, nf[j])
                  /\ \A j \in 1..knowledgeDone : Stored(store'.ordinals_knowledge, nk[j])
                  /\ newFacts \subseteq {nf[j] : j \in 1..factsDone}
                  /\ newKnowledge \subseteq {nk[j] : j \in 1..knowledgeDone}]_vars

C8_Witness ==
    /\ ret.op = "record_response"
    /\ ret.raised
    /\ ret.new_facts = <<"f1x", "f2">>
    /\ ret.fail_at = 4
    /\ Conv # <<>>
    /\ Conv[Len(Conv)].metadata.speaker = "ord_gpt"
    /\ \E i \in 1..Len(store.bitcoin_facts) : store.bitcoin_facts[i].document = "f1x"
    /\ ~\E i \in 1..Len(store.bitcoin_facts) : store.bitcoin_facts[i].document = "f2"

Finished(t) == thread[t].pc = "done" /\ thread[t].existing_prefs = <<>>

\* C9: two concurrent record_user_preference calls for the same user and type
\* that both searched before either wrote (both searches came back empty) both
\* create, and the store ends with two preference records for that pair.
C9_Race ==
    \A a, b \in Threads :
        (/\ a # b
         /\ Finished(a) /\ Finished(b)
         /\ thread[a].user_id = thread[b].user_id
         /\ thread[a].preference_type = thread[b].preference_type)
        => Cardinality(PrefIdx(store, thread[a].user_id, thread[a].preference_type)) = 2

C9_Witness ==
    /\ Finished(1) /\ Finished(2)
    /\ thread[1].user_id = thread[2].user_id
    /\ thread[1].preference_type = thread[2].preference_type
    /\ Cardinality(PrefIdx(store, thread[1].user_id, thread[1].preference_type)) = 2

\* C10: the conversation_history of the bundle process_message returns is
\* non-empty and its last entry is the message just recorded, speaker "user".
C10_NewestLast ==
    ret.op = "process_message" =>
        LET h == ret.value.conversation_history
        IN /\ Len(h) >= 1
           /\ h[Len(h)] = [speaker |-> "user", text |-> ret.message]

C10_Witness ==
    /\ ret.op = "process_message"
    /\ Cardinality(UserIdx(ret.user_id)) > HistoryLimit
    /\ Len(ret.value.conversation_history) = HistoryLimit
    /\ ret.value.conversation_history[1].speaker = "ord_gpt"

====
